---- MODULE Spec2Model ----
(***************************************************************************)
(* A model of rich.panel.Panel (src/rich/panel.py): a renderable that      *)
(* draws a border around its contents.                                     *)
(*                                                                         *)
(* Text is modelled as a sequence of one-cell glyphs (each glyph a string),*)
(* the line break being the glyph "\n".  A Segment is a record             *)
(* [text, style].  An Optional value is a sequence: <<>> for None / "not   *)
(* given", <<v>> for the value v.                                          *)
(*                                                                         *)
(* Panel.__console__ is a generator: the model keeps its frame in gen and  *)
(* has one action per resumption, from one yield to the next.              *)
(***************************************************************************)
EXTENDS Integers, Sequences, FiniteSets, TLC

VARIABLES
    panel,        \* the fields of the Panel instance (self)
    built,        \* the fields as __init__ assigned them
    expandGiven,  \* whether the constructor call passed expand explicitly
    gen,          \* the frame of the running __console__ generator
    renders,      \* the latest two finished __console__ calls, oldest first
    lastMeasure   \* Optional: the __measure__ call made since the latest
                  \* __console__ call began, and its result

vars == <<panel, built, expandGiven, gen, renders, lastMeasure>>

\* ------------------------------------------------------------------ bounds
\* options.max_width and max_width range over 0..MaxWidth
MaxWidth == 4

\* an explicit width above every console width
WideFixed == MaxWidth + 1

ConsoleWidths == 0..MaxWidth

Min(a, b) == IF a < b THEN a ELSE b
Max(a, b) == IF a > b THEN a ELSE b

\* ------------------------------------------------------- the collaborators
NL == "\n"

\* box.ROUNDED and box.SQUARE: the glyph names stand for the box-drawing
\* characters, one cell each.
ROUNDED ==
    [name |-> "ROUNDED", top_left |-> "rtl", top |-> "h", top_right |-> "rtr",
     mid_left |-> "v", mid_right |-> "v",
     bottom_left |-> "rbl", bottom |-> "h", bottom_right |-> "rbr"]

SQUARE ==
    [name |-> "SQUARE", top_left |-> "stl", top |-> "h", top_right |-> "str",
     mid_left |-> "v", mid_right |-> "v",
     bottom_left |-> "sbl", bottom |-> "h", bottom_right |-> "sbr"]

\* glyph * n, as Python's str * int: empty for n <= 0
Repeat(glyph, n) == [k \in 1..Max(n, 0) |-> glyph]

\* Box.get_top(widths) and Box.get_bottom(widths) for a one-element widths:
\* corner, the horizontal glyph widths[1] times, corner.
BoxGetTop(box, widths) ==
    <<box.top_left>> \o Repeat(box.top, widths[1]) \o <<box.top_right>>

BoxGetBottom(box, widths) ==
    <<box.bottom_left>> \o Repeat(box.bottom, widths[1]) \o <<box.bottom_right>>

\* console.get_style(name): the style object a style name resolves to
GetStyle(name) == IF name = "none" THEN "Style()" ELSE "Style(red)"

\* Segment(text, style), and Segment.line(): a bare line break, no style
Segment(text, style) == [text |-> text, style |-> style]

SegmentLine == Segment(<<NL>>, "None")

\* Measurement(minimum, maximum)
Measurement(minimum, maximum) == [minimum |-> minimum, maximum |-> maximum]

\* The renderables: plain text of one word, a sequence of one-cell glyphs.
Renderables == {<<>>, <<"a">>, <<"a", "b", "c">>}

\* Measurement.get(console, renderable, max_width): the text needs its length
\* and is never measured wider than max_width nor narrower than 0.
MeasurementGet(renderable, max_width) ==
    LET natural == Len(renderable)
        capped == Min(natural, max_width)
        minimum == Max(0, capped)
    IN  Measurement(minimum, Max(minimum, capped))

\* console.render_lines(renderable, options) at options.max_width = width:
\* the text wrapped into chunks of width cells, every line padded with
\* blanks to exactly width cells (one text segment, then one padding segment
\* when the chunk is short).  No line for the empty text.  At width < 1 a
\* line keeps no cell and no segment.
RenderLines(renderable, width) ==
    LET n == Len(renderable)
        w == Max(width, 1)
        count == (n + w - 1) \div w
        chunk(k) == SubSeq(renderable, (k - 1) * w + 1, Min(k * w, n))
        line(k) ==
            IF width < 1 THEN <<>>
            ELSE IF Len(chunk(k)) < width
                 THEN <<Segment(chunk(k), "None"),
                        Segment(Repeat(" ", width - Len(chunk(k))), "None")>>
                 ELSE <<Segment(chunk(k), "None")>>
    IN  [k \in 1..count |-> line(k)]

\* ------------------------------------------------------------------- Panel
DefaultBox == ROUNDED
DefaultExpand == TRUE
DefaultStyle == "none"
DefaultWidth == <<>>

\* Panel.__init__: an argument that is not given (<<>>) takes its default
PanelInit(renderable, boxArg, expandArg, styleArg, widthArg) ==
    [renderable |-> renderable,
     box |-> IF boxArg = <<>> THEN DefaultBox ELSE boxArg[1],
     expand |-> IF expandArg = <<>> THEN DefaultExpand ELSE expandArg[1],
     style |-> IF styleArg = <<>> THEN DefaultStyle ELSE styleArg[1],
     width |-> IF widthArg = <<>> THEN DefaultWidth ELSE widthArg]

BoxArgs == {<<>>, <<SQUARE>>}
ExpandArgs == {<<>>, <<TRUE>>, <<FALSE>>}
StyleArgs == {<<>>, <<"red">>}
WidthArgs == {<<>>, <<1>>, <<3>>, <<WideFixed>>}

\* faulty variant: the explicit width is taken without the min with max_width
RequestedWidthUncapped(self, max_width) ==
    IF self.width = <<>> THEN max_width ELSE self.width[1]

\* __console__, lines 49-53: the requested outer width
RequestedWidth(self, max_width) ==
    IF self.width = <<>> THEN max_width ELSE Min(self.width[1], max_width)

\* __console__, lines 54-58: the argument of Measurement.get, when it is called
MeasureArg(self, width) == IF self.expand THEN <<>> ELSE <<width - 2>>

\* faulty variant: the content is never measured, the panel always fills the width
ChildWidthAlwaysExpand(self, width) == width - 2

\* __console__, lines 54-58
ChildWidth(self, width) ==
    IF self.expand
    THEN width - 2
    ELSE MeasurementGet(self.renderable, width - 2).maximum

\* faulty variant: the top border is built for the outer width
TopBorderFullWidth(box, width, style) ==
    Segment(BoxGetTop(box, <<width>>), style)

\* faulty variant: the bottom border is built by the top border generator
BottomBorderAsTop(box, width, style) ==
    Segment(BoxGetTop(box, <<width - 2>>), style)

\* __console__, line 66 and line 72: the border segments
TopBorder(box, width, style) == Segment(BoxGetTop(box, <<width - 2>>), style)

BottomBorder(box, width, style) ==
    Segment(BoxGetBottom(box, <<width - 2>>), style)

\* faulty variant: the right edge carries no line break
LineEndNoBreak(box, style) == Segment(<<box.mid_right>>, style)

\* __console__, line 64 and line 65
LineStart(box, style) == Segment(<<box.mid_left>>, style)

LineEnd(box, style) == Segment(<<box.mid_right, NL>>, style)

\* faulty variant: the two border columns are not added to the content's width
PanelMeasureNoBorder(self, max_width) ==
    IF self.expand
    THEN Measurement(max_width, max_width)
    ELSE LET width == MeasurementGet(self.renderable, max_width - 2).maximum
         IN  Measurement(width, width)

\* __measure__, lines 76-79
PanelMeasure(self, max_width) ==
    IF self.expand
    THEN Measurement(max_width, max_width)
    ELSE LET width == MeasurementGet(self.renderable, max_width - 2).maximum + 2
         IN  Measurement(width, width)

\* the argument __measure__ passes to Measurement.get, when it calls it
PanelMeasureArg(self, max_width) ==
    IF self.expand THEN <<>> ELSE <<max_width - 2>>

\* The frame of a generator that is not running.
IdleGen ==
    [pc |-> "idle", max_width |-> 0, style |-> "None", requested |-> 0,
     width |-> 0, child_width |-> 0, lines |-> <<>>, i |-> 0, j |-> 0,
     out |-> <<>>, measureArg |-> <<>>, linesArg |-> 0, topArg |-> 0,
     bottomArg |-> <<>>]

\* ------------------------------------------------------------------ actions
\* One Panel, as its constructor leaves it.
Init ==
    /\ \E r \in Renderables, b \in BoxArgs, e \in ExpandArgs,
          s \in StyleArgs, w \in WidthArgs :
          /\ panel = PanelInit(r, b, e, s, w)
          /\ built = panel
          /\ expandGiven = (e # <<>>)
    /\ gen = IdleGen
    /\ renders = <<>>
    /\ lastMeasure = <<>>

\* faulty variant: __measure__ assigns the width it computes to self.width
MeasureStoresWidth ==
    /\ gen.pc = "idle"
    /\ \E max_width \in ConsoleWidths :
          /\ lastMeasure' = <<[max_width |-> max_width,
                               arg |-> PanelMeasureArg(panel, max_width),
                               result |-> PanelMeasure(panel, max_width)]>>
          /\ panel' = [panel EXCEPT
                         !.width = <<PanelMeasure(panel, max_width).maximum>>]
    /\ UNCHANGED <<built, expandGiven, gen, renders>>

\* panel.__measure__(console, max_width)
Measure ==
    /\ gen.pc = "idle"
    /\ \E max_width \in ConsoleWidths :
          lastMeasure' = <<[max_width |-> max_width,
                            arg |-> PanelMeasureArg(panel, max_width),
                            result |-> PanelMeasure(panel, max_width)]>>
    /\ UNCHANGED <<panel, built, expandGiven, gen, renders>>

\* panel.__console__(console, options) and the first next(): lines 48-66,
\* up to the yield of the top border.
RenderBegin ==
    /\ gen.pc = "idle"
    /\ \E max_width \in ConsoleWidths :
        LET style == GetStyle(panel.style)
            requested == RequestedWidth(panel, max_width)
            child_width == ChildWidth(panel, requested)
            width == child_width + 2
            lines == RenderLines(panel.renderable, child_width)
        IN  gen' = [pc |-> "top", max_width |-> max_width, style |-> style,
                    requested |-> requested,
                    width |-> width, child_width |-> child_width,
                    lines |-> lines, i |-> 1, j |-> 1,
                    out |-> <<TopBorder(panel.box, width, style)>>,
                    measureArg |-> MeasureArg(panel, requested),
                    linesArg |-> child_width,
                    topArg |-> width - 2,
                    bottomArg |-> <<>>]
    /\ lastMeasure' = <<>>
    /\ UNCHANGED <<panel, built, expandGiven, renders>>

Yield(segment, pc) ==
    gen' = [gen EXCEPT !.out = Append(@, segment), !.pc = pc]

\* line 67
YieldTopLine ==
    /\ gen.pc = "top"
    /\ Yield(SegmentLine, "loop")
    /\ UNCHANGED <<panel, built, expandGiven, renders, lastMeasure>>

\* line 68-69: the for loop takes the next line and yields line_start
YieldLineStart ==
    /\ gen.pc = "loop"
    /\ gen.i <= Len(gen.lines)
    /\ gen' = [gen EXCEPT !.out = Append(@, LineStart(panel.box, gen.style)),
                          !.pc = "line", !.j = 1]
    /\ UNCHANGED <<panel, built, expandGiven, renders, lastMeasure>>

\* line 70: yield from line, one segment
YieldFromLine ==
    /\ gen.pc = "line"
    /\ gen.j <= Len(gen.lines[gen.i])
    /\ gen' = [gen EXCEPT !.out = Append(@, gen.lines[gen.i][gen.j]),
                          !.j = @ + 1]
    /\ UNCHANGED <<panel, built, expandGiven, renders, lastMeasure>>

\* line 71: the line is exhausted, yield line_end
YieldLineEnd ==
    /\ gen.pc = "line"
    /\ gen.j > Len(gen.lines[gen.i])
    /\ gen' = [gen EXCEPT !.out = Append(@, LineEnd(panel.box, gen.style)),
                          !.pc = "loop", !.i = @ + 1]
    /\ UNCHANGED <<panel, built, expandGiven, renders, lastMeasure>>

\* line 72: the lines are exhausted, yield the bottom border
YieldBottom ==
    /\ gen.pc = "loop"
    /\ gen.i > Len(gen.lines)
    /\ gen' = [gen EXCEPT
                 !.out = Append(@, BottomBorder(panel.box, gen.width, gen.style)),
                 !.bottomArg = <<gen.width - 2>>,
                 !.pc = "bottom"]
    /\ UNCHANGED <<panel, built, expandGiven, renders, lastMeasure>>

\* line 73
YieldBottomLine ==
    /\ gen.pc = "bottom"
    /\ Yield(SegmentLine, "last")
    /\ UNCHANGED <<panel, built, expandGiven, renders, lastMeasure>>

\* the generator is resumed after its last yield and returns
RenderReturn ==
    /\ gen.pc = "last"
    /\ renders' = Append(IF Len(renders) < 2 THEN renders ELSE Tail(renders),
                         [max_width |-> gen.max_width,
                          requested |-> gen.requested,
                          width |-> gen.width,
                          lines |-> gen.lines,
                          style |-> gen.style,
                          out |-> gen.out,
                          measureArg |-> gen.measureArg,
                          linesArg |-> gen.linesArg,
                          topArg |-> gen.topArg,
                          bottomArg |-> gen.bottomArg[1]])
    /\ gen' = IdleGen
    /\ UNCHANGED <<panel, built, expandGiven, lastMeasure>>

Next ==
    \/ Measure
    \/ RenderBegin
    \/ YieldTopLine
    \/ YieldLineStart
    \/ YieldFromLine
    \/ YieldLineEnd
    \/ YieldBottom
    \/ YieldBottomLine
    \/ RenderReturn

Spec == Init /\ [][Next]_vars

\* ------------------------------------------------- reading an output back
\* the glyphs of a segment sequence, in order
RECURSIVE Flatten(_)
Flatten(segments) ==
    IF segments = <<>> THEN <<>>
    ELSE Head(segments).text \o Flatten(Tail(segments))

\* the printable columns of every line of text that a line break ends, in
\* order; cur is the number of columns of the line being read
RECURSIVE LineWidths(_, _)
LineWidths(text, cur) ==
    IF text = <<>> THEN <<>>
    ELSE IF Head(text) = NL
         THEN <<cur>> \o LineWidths(Tail(text), 0)
         ELSE LineWidths(Tail(text), cur + 1)

EndsWithBreak(text) == text # <<>> /\ text[Len(text)] = NL

IsPrefix(s, t) == Len(s) <= Len(t) /\ s = SubSeq(t, 1, Len(s))

Finished == {renders[k] : k \in 1..Len(renders)}

\* the width the content needs when nothing limits it
ContentWidth == Len(panel.renderable)

\* the shrink-to-fit outer width against an available outer width
ShrinkToFit(available) ==
    MeasurementGet(panel.renderable, available - 2).maximum + 2

\* the outer width a finished render built its borders for
OuterWidth(r) == r.topArg + 2

\* ------------------------------------------------------------------ claims

\* C1 (as stated, read at max_width >= 2): with a fixed width <= max_width
\* the outer width is the fixed width when expand, the shrink-to-fit width
\* against the fixed width otherwise; with a fixed width > max_width the
\* outer width is max_width.
C1_FixedWidthOriginal ==
    \A r \in Finished :
        (panel.width # <<>> /\ r.max_width >= 2) =>
            LET fixed == panel.width[1]
            IN  /\ r.bottomArg = r.topArg
                /\ fixed <= r.max_width =>
                       OuterWidth(r) = IF panel.expand THEN fixed
                                       ELSE ShrinkToFit(fixed)
                /\ fixed > r.max_width => OuterWidth(r) = r.max_width

\* C1 (amended): as C1, but with a fixed width > max_width the outer width
\* is max_width only when expand; without expand it is the shrink-to-fit
\* width against max_width.
C1_FixedWidthDominance ==
    \A r \in Finished :
        panel.width # <<>> =>
            LET fixed == panel.width[1]
                available == IF fixed <= r.max_width THEN fixed ELSE r.max_width
            IN  /\ r.bottomArg = r.topArg
                /\ OuterWidth(r) = IF panel.expand THEN available
                                   ELSE ShrinkToFit(available)

C1_Witness ==
    \E r \in Finished :
        /\ panel.width # <<>>
        /\ ~panel.expand
        /\ ContentWidth > 0
        /\ panel.width[1] > r.max_width
        /\ OuterWidth(r) = ContentWidth + 2
        /\ OuterWidth(r) < r.max_width

\* C2: without expand, the outer width render uses for its borders and its
\* content is the maximum of the renderer's measurement plus 2; it is the
\* same at every max_width that leaves room for the content, and the
\* requested width is not used when the content is narrower than it.
C2_ShrinkToFit ==
    ~panel.expand =>
        /\ \A r \in Finished :
            /\ r.measureArg # <<>>
            /\ r.topArg = MeasurementGet(panel.renderable, r.measureArg[1]).maximum
            /\ r.bottomArg = r.topArg
            /\ r.linesArg = r.topArg
            /\ ContentWidth + 2 < r.requested => OuterWidth(r) < r.requested
        /\ \A r1 \in Finished, r2 \in Finished :
            (ContentWidth + 2 <= r1.max_width /\ r2.max_width >= OuterWidth(r1))
                => OuterWidth(r2) = OuterWidth(r1)

C2_Witness ==
    \E r1 \in Finished, r2 \in Finished :
        /\ ~panel.expand
        /\ panel.width = <<>>
        /\ ContentWidth > 0
        /\ ContentWidth + 2 <= r1.max_width
        /\ r1.max_width < r2.max_width
        /\ OuterWidth(r1) = ContentWidth + 2
        /\ OuterWidth(r2) = ContentWidth + 2

\* C3: with expand and a requested outer width >= 2, the borders are built
\* for the one column width outer - 2, the content is rendered at
\* outer - 2, and the top border, the bottom border and every content line
\* have exactly outer printable columns.
C3_WidthAccounting ==
    \A r \in Finished :
        (panel.expand /\ r.requested >= 2) =>
            LET text == Flatten(r.out)
                widths == LineWidths(text, 0)
            IN  /\ r.topArg = r.requested - 2
                /\ r.bottomArg = r.requested - 2
                /\ r.linesArg = r.requested - 2
                /\ EndsWithBreak(text)
                /\ Len(widths) >= 2
                /\ \A k \in 1..Len(widths) : widths[k] = r.requested

C3_Witness ==
    \E r \in Finished :
        /\ panel.expand
        /\ r.requested >= 3
        /\ Len(r.lines) >= 2
        /\ Len(LineWidths(Flatten(r.out), 0)) >= 4

\* C4: render emits one content line for each line the renderer returns for
\* the content at the inner width (none for no line), and top border,
\* content lines and bottom border are each ended by exactly one line break:
\* lines + 2 in all.
C4_LineCount ==
    \A r \in Finished :
        LET text == Flatten(r.out)
            widths == LineWidths(text, 0)
            lines == RenderLines(panel.renderable, r.topArg)
        IN  /\ r.linesArg = r.topArg
            /\ EndsWithBreak(text)
            /\ Len(widths) = Len(lines) + 2
            /\ \A k \in 1..Len(widths) : widths[k] >= 2

C4_Witness ==
    \E r1 \in Finished, r2 \in Finished :
        /\ Len(RenderLines(panel.renderable, r1.topArg)) = 2
        /\ Len(LineWidths(Flatten(r1.out), 0)) = 4
        /\ Len(RenderLines(panel.renderable, r2.topArg)) = 3
        /\ Len(LineWidths(Flatten(r2.out), 0)) = 5

\* the output sequence of section 4.1, step 6 of the specification
RECURSIVE ContentPart(_, _, _)
ContentPart(box, style, lines) ==
    IF lines = <<>> THEN <<>>
    ELSE <<Segment(<<box.mid_left>>, style)>>
         \o Head(lines)
         \o <<Segment(<<box.mid_right, NL>>, style)>>
         \o ContentPart(box, style, Tail(lines))

ExpectedOut(box, style, lines, innerWidth) ==
    <<Segment(BoxGetTop(box, <<innerWidth>>), style), Segment(<<NL>>, "None")>>
    \o ContentPart(box, style, lines)
    \o <<Segment(BoxGetBottom(box, <<innerWidth>>), style),
         Segment(<<NL>>, "None")>>

\* C5: at every yield the segments emitted so far are the beginning of: the
\* styled top border, a line break, then for each line of the renderer in
\* order the styled left edge, the line's segments unchanged and the styled
\* right edge with the line break, then the styled bottom border and a line
\* break; and a finished render has emitted exactly that.
C5_EmissionOrder ==
    /\ gen.pc # "idle" =>
           IsPrefix(gen.out,
                    ExpectedOut(panel.box, GetStyle(panel.style),
                                RenderLines(panel.renderable, gen.linesArg),
                                gen.topArg))
    /\ \A r \in Finished :
           r.out = ExpectedOut(panel.box, GetStyle(panel.style),
                               RenderLines(panel.renderable, r.linesArg),
                               r.topArg)

C5_Witness ==
    \E r \in Finished :
        /\ Len(r.lines) >= 2
        /\ \E k \in 1..Len(r.lines) : Len(r.lines[k]) = 2
        /\ Len(r.out) >= 9

\* C6: __measure__ returns a measurement whose minimum is its maximum:
\* max_width when expand, and otherwise the maximum of the renderer's
\* measurement of the content at max_width - 2, plus 2.
C6_Measure ==
    lastMeasure # <<>> =>
        LET m == lastMeasure[1]
        IN  /\ m.result.minimum = m.result.maximum
            /\ panel.expand => m.result.maximum = m.max_width /\ m.arg = <<>>
            /\ ~panel.expand =>
                   /\ m.arg = <<m.max_width - 2>>
                   /\ m.result.maximum = ShrinkToFit(m.max_width)

C6_Witness ==
    /\ lastMeasure # <<>>
    /\ ~panel.expand
    /\ ContentWidth > 0
    /\ lastMeasure[1].result.maximum = ContentWidth + 2
    /\ lastMeasure[1].result.maximum < lastMeasure[1].max_width

\* C7: no call changes a field of the Panel, and a render with the same
\* options as an earlier render of the Panel emits the same sequence, from
\* its first segment to its last, whatever was rendered or measured between.
C7_Idempotence ==
    /\ panel = built
    /\ \A r1 \in Finished, r2 \in Finished :
           r1.max_width = r2.max_width => r1.out = r2.out
    /\ \A r \in Finished :
           (gen.pc # "idle" /\ gen.max_width = r.max_width)
               => /\ IsPrefix(gen.out, r.out)
                  /\ gen.pc = "last" => gen.out = r.out

C7_Witness ==
    /\ Len(renders) = 2
    /\ gen.pc = "last"
    /\ renders[1].max_width = gen.max_width
    /\ renders[2].max_width # gen.max_width
    /\ renders[2].out # gen.out
    /\ renders[1].out = gen.out
    /\ Len(gen.out) >= 7

\* C8: a Panel constructed without an expand argument does not expand.
C8_DefaultExpandFalse == ~expandGiven => panel.expand = FALSE

\* C9: no width handed to the renderer (to measure, to render lines) or to
\* the border generators is negative.
C9_NoNegativeWidth ==
    /\ lastMeasure # <<>> =>
           \A k \in 1..Len(lastMeasure[1].arg) : lastMeasure[1].arg[k] >= 0
    /\ gen.pc # "idle" =>
           /\ \A k \in 1..Len(gen.measureArg) : gen.measureArg[k] >= 0
           /\ gen.linesArg >= 0
           /\ gen.topArg >= 0
           /\ \A k \in 1..Len(gen.bottomArg) : gen.bottomArg[k] >= 0

\* C10: at every max_width >= 2 (and a fixed width, when set, >= 2), the
\* outer width render produces is the maximum and the minimum __measure__
\* reports at that max_width.
C10_MeasureAgreesWithRender ==
    lastMeasure # <<>> =>
        \A r \in Finished :
            (/\ r.max_width = lastMeasure[1].max_width
             /\ r.max_width >= 2
             /\ panel.width # <<>> => panel.width[1] >= 2) =>
                /\ OuterWidth(r) = lastMeasure[1].result.maximum
                /\ OuterWidth(r) = lastMeasure[1].result.minimum
====
